---- MODULE Spec2Model ----
(***************************************************************************)
(* Model of session::modules::clang::libclang::SourceIndex                 *)
(* (src/cpp/session/modules/clang/libclang/SourceIndex.cpp): the cache of  *)
(* parsed translation units kept in front of libclang.                     *)
(*                                                                         *)
(* The collaborators (libclang, the compilation database, the file         *)
(* system) are the environment: their answers are state the environment    *)
(* actions change, and the outcome of every parse and reparse is an input   *)
(* of the operation that makes the call.                                   *)
(***************************************************************************)
EXTENDS Integers, Sequences, FiniteSets, TLC

\* ------------------------------------------------------------------ bounds

\* Modification times are 1..MaxTime.
MaxTime == 2

\* libclang hands out at most MaxHandles translation units in one run.
MaxHandles == 2

\* ------------------------------------------------------------------- paths

\* A FilePath is its absolute path, split into the part before the
\* extension and the extension as written.
SrcA == [stem |-> "/p/a", ext |-> ".cpp"]
SrcB == [stem |-> "/p/b", ext |-> ".C"]
Hdr  == [stem |-> "/p/u", ext |-> ".h"]

Sources   == {SrcA, SrcB}

\* The source file the environment writes and changes the arguments of
\* during a run; the other sources keep their time and arguments.
Edited    == {SrcA}

Headers   == {Hdr}
FilePaths == Sources \cup Headers

\* std::map<std::string, ...> iterates its keys in string order.
FileNames == <<SrcA, SrcB, Hdr>>

\* The value of a default-constructed TranslationUnit's filename.
NoFile == [stem |-> "", ext |-> ""]

\* A null CXTranslationUnit.
NullTU == 0

\* The argument lists the compilation database can answer with.
ArgLists == {<<"-g">>, <<"-g", "-v">>}

\* ------------------------------------------------------------------- state

VARIABLES
    translationUnits,  \* translationUnits_: filename -> StoredTranslationUnit
    verbose,           \* verbose_
    index,             \* index_: "null", "live" or "disposed"
    destroyed,         \* the destructor has run
    nextTu,            \* libclang: the next translation unit it creates
    disposed,          \* libclang: how often each unit was disposed
    tuIncludes,        \* libclang: the headers each live unit includes
    dbArgs,            \* compilation database: arguments of each source
    dbUnits,           \* compilation database: the list translationUnits()
    fsWriteTime,       \* file system: last write time of each source
    fsIncludes,        \* file system: the headers each source includes
    trace,             \* the calls the last operation made, in order
    lastOp,            \* the last operation and its argument
    result,            \* the TranslationUnit the last operation returned
    resolved,          \* the live unit the last header lookup answered with
    pre,               \* translationUnits_ when the last operation began
    preIncludes        \* the headers each unit of pre included then

vars == <<translationUnits, verbose, index, destroyed, nextTu, disposed,
          tuIncludes, dbArgs, dbUnits, fsWriteTime, fsIncludes, trace, lastOp,
          result, resolved, pre, preIncludes>>

envVars == <<dbArgs, dbUnits, fsWriteTime, fsIncludes>>

\* ---------------------------------------------------------------- helpers

toLower(ext) ==
    CASE ext = ".C"   -> ".c"
      [] ext = ".CPP" -> ".cpp"
      [] ext = ".H"   -> ".h"
      [] OTHER        -> ext

extensionLowerCase(filePath) == toLower(filePath.ext)

absolutePath(filePath) == filePath

isTranslationUnit(filePath) ==
    LET ex == extensionLowerCase(filePath)
    IN  ex = ".c" \/ ex = ".cc" \/ ex = ".cpp" \/ ex = ".m" \/ ex = ".mm"

\* TranslationUnit(filename, tu) and the default TranslationUnit().
TranslationUnit(filename, tu) == [file |-> filename, tu |-> tu]
EmptyTranslationUnit == TranslationUnit(NoFile, NullTU)
empty(unit) == unit.tu = NullTU

StoredTranslationUnit(args, time, tu) ==
    [compileArgs |-> args, lastWriteTime |-> time, tu |-> tu]

\* A call the manager made: what it called, on which file and unit, and
\* whether the call succeeded.
Event(op, file, tu, ok) == [op |-> op, file |-> file, tu |-> tu, ok |-> ok]

\* The state an operation works on.
Machine ==
    [translationUnits |-> translationUnits, nextTu |-> nextTu,
     disposed |-> disposed, tuIncludes |-> tuIncludes, trace |-> <<>>,
     active |-> {}, overflow |-> FALSE]

Ret(st, unit) == [st |-> st, ret |-> unit]

Log(st, ev) == [st EXCEPT !.trace = Append(@, ev)]

erase(map, key) == [k \in DOMAIN map \ {key} |-> map[k]]

insert(map, key, val) ==
    [k \in DOMAIN map \cup {key} |-> IF k = key THEN val ELSE map[k]]

EmptyMap == [k \in {} |-> NullTU]

\* clang().disposeTranslationUnit(tu)
disposeTranslationUnit(st, tu) ==
    [Log(st, Event("dispose", NoFile, tu, TRUE)) EXCEPT
        !.disposed = insert(@, tu, IF tu \in DOMAIN @ THEN @[tu] + 1 ELSE 1),
        !.tuIncludes = erase(@, tu)]

\* clang().parseTranslationUnit(...): a new unit, or NULL when the parse
\* fails (ok is the outcome of this parse).
parseTranslationUnit(st, filename, args, ok) ==
    IF ok
    THEN [st |-> [Log(st, Event("parse", filename, st.nextTu, TRUE)) EXCEPT
                     !.nextTu = @ + 1,
                     !.disposed = insert(@, st.nextTu, 0),
                     !.tuIncludes = insert(@, st.nextTu, fsIncludes[filename])],
          tu |-> st.nextTu]
    ELSE [st |-> Log(st, Event("parse", filename, NullTU, FALSE)), tu |-> NullTU]

\* clang().reparseTranslationUnit(tu, ...): 0 when the reparse succeeds; the
\* unit then holds the file as it is now.
reparseTranslationUnit(st, filename, tu, ok) ==
    IF ok
    THEN [st |-> [Log(st, Event("reparse", filename, tu, TRUE)) EXCEPT
                     !.tuIncludes = insert(@, tu, fsIncludes[filename])],
          ret |-> 0]
    ELSE [st |-> Log(st, Event("reparse", filename, tu, FALSE)), ret |-> 1]

\* TranslationUnit::includesFile: the include set of a unit is that of its
\* file when the unit was last parsed or reparsed.
includesFile(st, unit, filePath) ==
    /\ unit.tu \in DOMAIN st.tuIncludes
    /\ filePath \in st.tuIncludes[unit.tu]

\* pCompilationDatabase_->compileArgsForTranslationUnit(filePath)
compileArgsForTranslationUnit(filePath) == dbArgs[filePath]

\* filePath.lastWriteTime()
lastWriteTime(filePath) == fsWriteTime[filePath]

\* ------------------------------------------------------------- operations

\* A removeTranslationUnit that disposes the unit and keeps the entry.
removeTranslationUnit_noErase(st, filename) ==
    IF filename \in DOMAIN st.translationUnits
    THEN disposeTranslationUnit(st, st.translationUnits[filename].tu)
    ELSE st

\* A removeTranslationUnit that erases the entry and keeps the unit alive.
removeTranslationUnit_noDispose(st, filename) ==
    [st EXCEPT !.translationUnits = erase(@, filename)]

removeTranslationUnit(st, filename) ==
    IF filename \in DOMAIN st.translationUnits
    THEN [disposeTranslationUnit(st, st.translationUnits[filename].tu) EXCEPT
             !.translationUnits = erase(@, filename)]
    ELSE st

RECURSIVE disposeFrom(_, _)
\* The loop of removeAllTranslationUnits, from the i-th key on.
disposeFrom(st, i) ==
    IF i > Len(FileNames) THEN st
    ELSE IF FileNames[i] \in DOMAIN st.translationUnits
         THEN disposeFrom(
                 disposeTranslationUnit(st, st.translationUnits[FileNames[i]].tu),
                 i + 1)
         ELSE disposeFrom(st, i + 1)

\* A removeAllTranslationUnits that disposes the units and forgets to clear
\* the map.
removeAllTranslationUnits_noClear(st) == disposeFrom(st, 1)

removeAllTranslationUnits(st) ==
    [disposeFrom(st, 1) EXCEPT !.translationUnits = EmptyMap]

\* An incrementalTranslationUnit that reparses and forgets to store the new
\* write time.
incrementalTranslationUnit_keepTime(st, filename, args, time, ok) ==
    IF filename \in DOMAIN st.translationUnits
    THEN LET stored == st.translationUnits[filename] IN
         IF args = stored.compileArgs /\ time = stored.lastWriteTime
         THEN [st |-> st, ret |-> TranslationUnit(filename, stored.tu),
               done |-> TRUE]
         ELSE IF args = stored.compileArgs
         THEN LET r == reparseTranslationUnit(st, filename, stored.tu, ok) IN
              IF r.ret = 0
              THEN [st |-> r.st, ret |-> TranslationUnit(filename, stored.tu),
                    done |-> TRUE]
              ELSE [st |-> r.st, ret |-> EmptyTranslationUnit, done |-> FALSE]
         ELSE [st |-> st, ret |-> EmptyTranslationUnit, done |-> FALSE]
    ELSE [st |-> st, ret |-> EmptyTranslationUnit, done |-> FALSE]

\* An incrementalTranslationUnit that answers with the empty unit when the
\* reparse fails, in place of going on to the rebuild.
incrementalTranslationUnit_failReturns(st, filename, args, time, ok) ==
    IF filename \in DOMAIN st.translationUnits
    THEN LET stored == st.translationUnits[filename] IN
         IF args = stored.compileArgs /\ time = stored.lastWriteTime
         THEN [st |-> st, ret |-> TranslationUnit(filename, stored.tu),
               done |-> TRUE]
         ELSE IF args = stored.compileArgs
         THEN LET r == reparseTranslationUnit(st, filename, stored.tu, ok) IN
              IF r.ret = 0
              THEN [st |-> [r.st EXCEPT
                              !.translationUnits[filename].lastWriteTime = time],
                    ret |-> TranslationUnit(filename, stored.tu),
                    done |-> TRUE]
              ELSE [st |-> r.st, ret |-> EmptyTranslationUnit, done |-> TRUE]
         ELSE [st |-> st, ret |-> EmptyTranslationUnit, done |-> FALSE]
    ELSE [st |-> st, ret |-> EmptyTranslationUnit, done |-> FALSE]

\* Lines 141-175 of getTranslationUnit: the incremental scenarios for a
\* source file. done says whether the function returned here.
incrementalTranslationUnit(st, filename, args, time, ok) ==
    IF filename \in DOMAIN st.translationUnits
    THEN LET stored == st.translationUnits[filename] IN
         IF args = stored.compileArgs /\ time = stored.lastWriteTime
         THEN [st |-> st, ret |-> TranslationUnit(filename, stored.tu),
               done |-> TRUE]
         ELSE IF args = stored.compileArgs
         THEN LET r == reparseTranslationUnit(st, filename, stored.tu, ok) IN
              IF r.ret = 0
              THEN [st |-> [r.st EXCEPT
                              !.translationUnits[filename].lastWriteTime = time],
                    ret |-> TranslationUnit(filename, stored.tu),
                    done |-> TRUE]
              ELSE [st |-> r.st, ret |-> EmptyTranslationUnit, done |-> FALSE]
         ELSE [st |-> st, ret |-> EmptyTranslationUnit, done |-> FALSE]
    ELSE [st |-> st, ret |-> EmptyTranslationUnit, done |-> FALSE]

\* A rebuildTranslationUnit that parses without removing the unit it
\* replaces.
rebuildTranslationUnit_noRemove(st, filename, args, time, ok) ==
    LET args2   == IF verbose >= 2 THEN Append(args, "-v") ELSE args
        parsed  == parseTranslationUnit(st, filename, args2, ok)
    IN  IF parsed.tu # NullTU
        THEN Ret([parsed.st EXCEPT
                    !.translationUnits =
                        insert(@, filename,
                               StoredTranslationUnit(args2, time, parsed.tu))],
                 TranslationUnit(filename, parsed.tu))
        ELSE Ret(parsed.st, EmptyTranslationUnit)

\* A rebuildTranslationUnit that stores what the parse answered without
\* testing it for NULL.
rebuildTranslationUnit_storeNull(st, filename, args, time, ok) ==
    LET removed == removeTranslationUnit(st, filename)
        args2   == IF verbose >= 2 THEN Append(args, "-v") ELSE args
        parsed  == parseTranslationUnit(removed, filename, args2, ok)
    IN  Ret([parsed.st EXCEPT
                !.translationUnits =
                    insert(@, filename,
                           StoredTranslationUnit(args2, time, parsed.tu))],
            TranslationUnit(filename, parsed.tu))

\* A rebuildTranslationUnit that clears the whole map before it parses.
rebuildTranslationUnit_removeAll(st, filename, args, time, ok) ==
    LET removed == removeAllTranslationUnits(st)
        args2   == IF verbose >= 2 THEN Append(args, "-v") ELSE args
        parsed  == parseTranslationUnit(removed, filename, args2, ok)
    IN  IF parsed.tu # NullTU
        THEN Ret([parsed.st EXCEPT
                    !.translationUnits =
                        insert(@, filename,
                               StoredTranslationUnit(args2, time, parsed.tu))],
                 TranslationUnit(filename, parsed.tu))
        ELSE Ret(parsed.st, EmptyTranslationUnit)

\* Lines 177-213 of getTranslationUnit: the full rebuild.
rebuildTranslationUnit(st, filename, args, time, ok) ==
    LET removed == removeTranslationUnit(st, filename)
        args2   == IF verbose >= 2 THEN Append(args, "-v") ELSE args
        parsed  == parseTranslationUnit(removed, filename, args2, ok)
    IN  IF parsed.tu # NullTU
        THEN Ret([parsed.st EXCEPT
                    !.translationUnits =
                        insert(@, filename,
                               StoredTranslationUnit(args2, time, parsed.tu))],
                 TranslationUnit(filename, parsed.tu))
        ELSE Ret(parsed.st, EmptyTranslationUnit)

\* A scan that finds no unit, whatever the map holds.
scanTranslationUnits_miss(st, filePath) == 0

\* Lines 219-226 of getHeaderTranslationUnit: the first cached unit, in key
\* order, that includes the file; 0 when there is none.
scanTranslationUnits(st, filePath) ==
    LET hits == {i \in 1..Len(FileNames) :
                    /\ FileNames[i] \in DOMAIN st.translationUnits
                    /\ includesFile(st,
                          TranslationUnit(FileNames[i],
                                          st.translationUnits[FileNames[i]].tu),
                          filePath)}
    IN  IF hits = {} THEN 0 ELSE CHOOSE i \in hits : \A j \in hits : i <= j

\* The call unit.includesFile(filePath) and what it answered.
testIncludes(st, unit, filePath) ==
    Log(st, Event("includes", unit.file, unit.tu,
                  includesFile(st, unit, filePath)))

RECURSIVE logIncludes(_, _, _, _)
\* The includesFile calls of the scan, on the units of the keys i..last.
logIncludes(st, filePath, i, last) ==
    IF i > last THEN st
    ELSE logIncludes(
            IF FileNames[i] \in DOMAIN st.translationUnits
            THEN testIncludes(st,
                    TranslationUnit(FileNames[i],
                                    st.translationUnits[FileNames[i]].tu),
                    filePath)
            ELSE st,
            filePath, i + 1, last)

RECURSIVE getTranslationUnit(_, _, _, _)
RECURSIVE forceTranslationUnits(_, _, _, _, _, _)

\* A forceTranslationUnits that goes on through the list after a source
\* that includes the file, and answers with the last such source.
forceTranslationUnits_noStop(st, filePath, srcFiles, i, po, ro) ==
    IF i > Len(srcFiles)
    THEN Ret(st, EmptyTranslationUnit)
    ELSE LET r == getTranslationUnit(st, srcFiles[i], po, ro)
             tested == testIncludes(r.st, r.ret, filePath)
         IN
         IF ~empty(r.ret)
         THEN IF includesFile(r.st, r.ret, filePath)
              THEN LET rest == forceTranslationUnits(tested, filePath,
                                                     srcFiles, i + 1, po, ro)
                   IN  IF empty(rest.ret) THEN Ret(rest.st, r.ret) ELSE rest
              ELSE forceTranslationUnits(
                      removeTranslationUnit(tested, absolutePath(filePath)),
                      filePath, srcFiles, i + 1, po, ro)
         ELSE forceTranslationUnits(r.st, filePath, srcFiles, i + 1, po, ro)

\* Lines 232-250 of getHeaderTranslationUnit: the loop over srcFiles, from
\* the i-th on. po and ro give the outcome of the parse and of the reparse
\* of each file.
forceTranslationUnits(st, filePath, srcFiles, i, po, ro) ==
    IF i > Len(srcFiles) THEN Ret(st, EmptyTranslationUnit)
    ELSE LET r == getTranslationUnit(st, srcFiles[i], po, ro)
             tested == testIncludes(r.st, r.ret, filePath)
         IN
         IF r.st.overflow
         THEN r
         ELSE IF ~empty(r.ret)
         THEN IF includesFile(r.st, r.ret, filePath)
              THEN Ret(tested, r.ret)
              ELSE forceTranslationUnits(
                      removeTranslationUnit(tested, absolutePath(filePath)),
                      filePath, srcFiles, i + 1, po, ro)
         ELSE forceTranslationUnits(r.st, filePath, srcFiles, i + 1, po, ro)

\* What the course of a header lookup depends on: the header, and the
\* entries with their units' includes in place of the handles.
Frame(st, filePath) ==
    [file  |-> filePath,
     units |-> [f \in DOMAIN st.translationUnits |->
                  [compileArgs   |-> st.translationUnits[f].compileArgs,
                   lastWriteTime |-> st.translationUnits[f].lastWriteTime,
                   includes      |-> st.tuIncludes[st.translationUnits[f].tu]]]]

\* A forced search entered inside a forced search of the same frame repeats
\* it, call for call, and so never returns: the recursion overflows the
\* stack. st.active holds the frames of the searches in progress.
getHeaderTranslationUnit(st, filePath, po, ro) ==
    LET hit == scanTranslationUnits(st, filePath)
        scanned == logIncludes(st, filePath, 1,
                               IF hit # 0 THEN hit ELSE Len(FileNames))
    IN
    IF hit # 0
    THEN Ret(scanned, TranslationUnit(FileNames[hit],
                                      st.translationUnits[FileNames[hit]].tu))
    ELSE IF Frame(st, filePath) \in st.active
    THEN Ret([scanned EXCEPT !.overflow = TRUE], EmptyTranslationUnit)
    ELSE LET r == forceTranslationUnits(
                     [Log(scanned, Event("list", NoFile, NullTU, TRUE)) EXCEPT
                         !.active = @ \cup {Frame(st, filePath)}],
                     filePath, dbUnits, 1, po, ro)
         IN  Ret([r.st EXCEPT !.active = st.active], r.ret)

getTranslationUnit(st, filePath, po, ro) ==
    LET entered == Log(st, Event("get", filePath, NullTU, TRUE)) IN
    IF ~isTranslationUnit(filePath)
    THEN getHeaderTranslationUnit(entered, filePath, po, ro)
    ELSE LET args     == compileArgsForTranslationUnit(filePath)
             time     == lastWriteTime(filePath)
             filename == absolutePath(filePath)
             inc      == incrementalTranslationUnit(entered, filename, args,
                                                    time, ro[filePath])
         IN  IF inc.done
             THEN Ret(inc.st, inc.ret)
             ELSE rebuildTranslationUnit(inc.st, filename, args, time,
                                         po[filePath])

\* A destructor that disposes the index before the units.
SourceIndex_dtor_indexFirst(st, idx) ==
    removeAllTranslationUnits(
        IF idx # "null"
        THEN Log(st, Event("disposeIndex", NoFile, NullTU, TRUE))
        ELSE st)

\* ~SourceIndex(): the units go first, then the index if there is one.
SourceIndex_dtor(st, idx) ==
    LET removed == removeAllTranslationUnits(st) IN
    IF idx # "null"
    THEN Log(removed, Event("disposeIndex", NoFile, NullTU, TRUE))
    ELSE removed

\* A primeTranslationUnit without the lookup.
primeTranslationUnit_always(st, filePath, po, ro) ==
    getTranslationUnit(st, filePath, po, ro).st

primeTranslationUnit(st, filePath, po, ro) ==
    LET filename == absolutePath(filePath) IN
    IF filename \notin DOMAIN st.translationUnits
    THEN getTranslationUnit(st, filePath, po, ro).st
    ELSE st

\* A reprimeTranslationUnit without the lookup.
reprimeTranslationUnit_always(st, filePath, po, ro) ==
    getTranslationUnit(st, filePath, po, ro).st

reprimeTranslationUnit(st, filePath, po, ro) ==
    LET filename == absolutePath(filePath) IN
    IF filename \in DOMAIN st.translationUnits
    THEN getTranslationUnit(st, filePath, po, ro).st
    ELSE st

\* ---------------------------------------------------------------- actions

Outcomes == [Sources -> BOOLEAN]

\* The entry of f answers a request for f as it is (lines 148-151).
UpToDate(f) ==
    /\ f \in DOMAIN translationUnits
    /\ translationUnits[f].compileArgs = compileArgsForTranslationUnit(f)
    /\ translationUnits[f].lastWriteTime = lastWriteTime(f)

\* A request for f reparses the unit of its entry (lines 148, 154).
Reparsable(f) ==
    /\ f \in DOMAIN translationUnits
    /\ translationUnits[f].compileArgs = compileArgsForTranslationUnit(f)
    /\ translationUnits[f].lastWriteTime # lastWriteTime(f)

\* The files an operation on filePath can request: a source file itself,
\* or every file the header search forces.
Requested(filePath) ==
    IF isTranslationUnit(filePath) THEN {filePath} ELSE Sources

\* The parse outcomes an operation on filePath can meet: those of the
\* requested files whose entry does not answer as it is.
ParseOutcomes(filePath) ==
    {o \in Outcomes :
        \A f \in Sources : (f \in Requested(filePath) /\ ~UpToDate(f)) \/ o[f]}

\* The reparse outcomes: those of the requested files with a unit to reparse.
ReparseOutcomes(filePath) ==
    {o \in Outcomes :
        \A f \in Sources : (f \in Requested(filePath) /\ Reparsable(f)) \/ o[f]}

\* The outcome of a call that was not made is not an input: it is TRUE.
Called(calls, op, f) == \E i \in 1..Len(calls) : calls[i].op = op /\ calls[i].file = f

Inputs(po, ro, calls) ==
    \A f \in Sources : /\ Called(calls, "parse", f) \/ po[f]
                       /\ Called(calls, "reparse", f) \/ ro[f]

\* The lists translationUnits() can answer with.
UnitLists == {<<SrcB, SrcA>>}

\* The verbosity levels initialize is called with: below 2, and 2.
Verbosities == {1, 2}

NoOp == [name |-> "none", file |-> NoFile]

Init ==
    /\ translationUnits = EmptyMap
    /\ verbose = 0
    /\ index = "null"
    /\ destroyed = FALSE
    /\ nextTu = 1
    /\ disposed = EmptyMap
    /\ tuIncludes = EmptyMap
    /\ dbArgs \in {d \in [Sources -> ArgLists] :
                     \A f \in Sources \ Edited : d[f] = <<"-g">>}
    /\ dbUnits \in UnitLists
    /\ fsWriteTime \in {d \in [Sources -> 1..MaxTime] :
                          \A f \in Sources \ Edited : d[f] = 1}
    /\ fsIncludes \in [Sources -> SUBSET Headers]
    /\ trace = <<>>
    /\ lastOp = NoOp
    /\ result = EmptyTranslationUnit
    /\ resolved = NullTU
    /\ pre = EmptyMap
    /\ preIncludes = EmptyMap

\* An operation of the manager ends in state st, having returned unit.
Commit(name, filePath, st, unit) ==
    /\ st.nextTu <= MaxHandles + 1
    /\ pre' = translationUnits
    /\ preIncludes' = [f \in DOMAIN translationUnits |->
                         tuIncludes[translationUnits[f].tu]]
    /\ translationUnits' = st.translationUnits
    /\ nextTu' = st.nextTu
    /\ disposed' = st.disposed
    /\ tuIncludes' = st.tuIncludes
    /\ trace' = st.trace
    /\ lastOp' = [name |-> IF st.overflow THEN "overflow" ELSE name,
                  file |-> filePath]
    /\ result' = unit
    /\ resolved' = IF name = "get" /\ ~isTranslationUnit(filePath) /\ ~empty(unit)
                   THEN unit.tu
                   ELSE IF resolved \in DOMAIN st.tuIncludes
                   THEN resolved
                   ELSE NullTU

\* The object exists and no call has overflowed the stack.
Alive == ~destroyed /\ lastOp.name # "overflow"

Ready == index = "live" /\ Alive

Initialize ==
    /\ index = "null" /\ Alive
    /\ \E v \in Verbosities : verbose' = v
    /\ index' = "live"
    /\ Commit("initialize", NoFile, Machine, EmptyTranslationUnit)
    /\ UNCHANGED <<destroyed, envVars>>

GetTranslationUnit ==
    /\ Ready
    /\ \E filePath \in FilePaths :
       \E po \in ParseOutcomes(filePath), ro \in ReparseOutcomes(filePath) :
          \E r \in {getTranslationUnit(Machine, filePath, po, ro)} :
             /\ Inputs(po, ro, r.st.trace)
             /\ Commit("get", filePath, r.st, r.ret)
    /\ UNCHANGED <<verbose, index, destroyed, envVars>>

PrimeTranslationUnit ==
    /\ Ready
    /\ \E filePath \in FilePaths :
       \E po \in ParseOutcomes(filePath), ro \in ReparseOutcomes(filePath) :
          \E st \in {primeTranslationUnit(Machine, filePath, po, ro)} :
             /\ Inputs(po, ro, st.trace)
             /\ Commit("prime", filePath, st, EmptyTranslationUnit)
    /\ UNCHANGED <<verbose, index, destroyed, envVars>>

ReprimeTranslationUnit ==
    /\ Ready
    /\ \E filePath \in FilePaths :
       \E po \in ParseOutcomes(filePath), ro \in ReparseOutcomes(filePath) :
          \E st \in {reprimeTranslationUnit(Machine, filePath, po, ro)} :
             /\ Inputs(po, ro, st.trace)
             /\ Commit("reprime", filePath, st, EmptyTranslationUnit)
    /\ UNCHANGED <<verbose, index, destroyed, envVars>>

RemoveTranslationUnit ==
    /\ Alive
    /\ \E filePath \in FilePaths :
          \E st \in {removeTranslationUnit(Machine, absolutePath(filePath))} :
             Commit("remove", filePath, st, EmptyTranslationUnit)
    /\ UNCHANGED <<verbose, index, destroyed, envVars>>

RemoveAllTranslationUnits ==
    /\ Alive
    /\ \E st \in {removeAllTranslationUnits(Machine)} :
          Commit("removeAll", NoFile, st, EmptyTranslationUnit)
    /\ UNCHANGED <<verbose, index, destroyed, envVars>>

\* ~SourceIndex()
Destroy ==
    /\ Alive
    /\ \E st \in {SourceIndex_dtor(Machine, index)} :
          Commit("destroy", NoFile, st, EmptyTranslationUnit)
    /\ index' = IF index # "null" THEN "disposed" ELSE index
    /\ destroyed' = TRUE
    /\ UNCHANGED <<verbose, envVars>>

\* The environment: the compilation database answers with other arguments.
ChangeArgs ==
    /\ Alive
    /\ \E f \in Edited, a \in ArgLists :
          /\ a # dbArgs[f]
          /\ dbArgs' = [dbArgs EXCEPT ![f] = a]
    /\ Commit("changeArgs", NoFile, Machine, EmptyTranslationUnit)
    /\ UNCHANGED <<verbose, index, destroyed, dbUnits, fsWriteTime, fsIncludes>>

\* The environment: a source file is written, with the same or other
\* #include lines.
WriteFile ==
    /\ Alive
    /\ \E f \in Edited, t \in 1..MaxTime, inc \in SUBSET Headers :
          /\ t # fsWriteTime[f]
          /\ fsWriteTime' = [fsWriteTime EXCEPT ![f] = t]
          /\ fsIncludes' = [fsIncludes EXCEPT ![f] = inc]
    /\ Commit("writeFile", NoFile, Machine, EmptyTranslationUnit)
    /\ UNCHANGED <<verbose, index, destroyed, dbArgs, dbUnits>>

Next ==
    \/ Initialize
    \/ GetTranslationUnit
    \/ PrimeTranslationUnit
    \/ ReprimeTranslationUnit
    \/ RemoveTranslationUnit
    \/ RemoveAllTranslationUnits
    \/ Destroy
    \/ ChangeArgs
    \/ WriteFile

Spec == Init /\ [][Next]_vars

\* The same manager when the compilation database lists a header among its
\* translation units.
HeaderUnitLists == {<<SrcA, Hdr>>}

InitHeaderListed ==
    /\ translationUnits = EmptyMap
    /\ verbose = 0
    /\ index = "null"
    /\ destroyed = FALSE
    /\ nextTu = 1
    /\ disposed = EmptyMap
    /\ tuIncludes = EmptyMap
    /\ dbArgs = [f \in Sources |-> <<"-g">>]
    /\ dbUnits \in HeaderUnitLists
    /\ fsWriteTime = [f \in Sources |-> 1]
    /\ fsIncludes \in [Sources -> SUBSET Headers]
    /\ trace = <<>>
    /\ lastOp = NoOp
    /\ result = EmptyTranslationUnit
    /\ resolved = NullTU
    /\ pre = EmptyMap
    /\ preIncludes = EmptyMap

SpecHeaderListed == InitHeaderListed /\ [][Next]_vars

\* ------------------------------------------------------------- properties

NumCalls(calls, op) == Cardinality({i \in 1..Len(calls) : calls[i].op = op})

IsEngineCall(e) == e.op \in {"parse", "reparse", "dispose"}

\* The calls to libclang's parse, reparse and dispose among calls.
EngineCalls(calls) == SelectSeq(calls, IsEngineCall)

\* The last operation was getTranslationUnit on a source file / on a header.
GotSource == lastOp.name = "get" /\ isTranslationUnit(lastOp.file)
GotHeader == lastOp.name = "get" /\ ~isTranslationUnit(lastOp.file)

\* The source files the compilation database lists.
Known == {dbUnits[i] : i \in 1..Len(dbUnits)} \cap Sources

\* The listed sources that include header h, and the entries whose unit
\* included h when the last operation began.
Includers(h) == {f \in Known : h \in fsIncludes[f]}
CachedIncluders(map, h) == {f \in DOMAIN map : h \in preIncludes[f]}

\* The last operation parsed file f and the parse succeeded.
ParsedOk(f) ==
    \E i \in 1..Len(trace) :
        trace[i].op = "parse" /\ trace[i].file = f /\ trace[i].ok

\* The last operation reparsed or disposed unit tu.
Touched(tu) ==
    \E i \in 1..Len(trace) :
        trace[i].op \in {"reparse", "dispose"} /\ trace[i].tu = tu

\* The argument list getTranslationUnit hands to the parse of f.
ArgsPassed(f) == IF verbose >= 2 THEN Append(dbArgs[f], "-v") ELSE dbArgs[f]

\* C1: getTranslationUnit on a source file that has no unit makes exactly
\* one parse call, at every verbosity; when that parse succeeded, the same
\* request made again at once (same arguments, same write time) makes no
\* parse, reparse or dispose call and returns the same unit.
C1_FirstParseThenHit ==
    (GotSource /\ lastOp.file \notin DOMAIN pre) =>
        /\ NumCalls(trace, "parse") = 1
        /\ ~empty(result) =>
              \A po \in Outcomes, ro \in Outcomes :
                 LET r == getTranslationUnit(Machine, lastOp.file, po, ro)
                 IN  /\ EngineCalls(r.st.trace) = <<>>
                     /\ r.ret = result

\* C2: after getTranslationUnit on a header that exactly one listed source S
\* and no cached unit includes, S (when its parse succeeded) has a unit and
\* the result is that unit, and no other listed source that was parsed during
\* the search and does not include the header has a unit.
C2_OnlyIncluderKept ==
    (/\ GotHeader
     /\ Cardinality(Includers(lastOp.file)) = 1
     /\ CachedIncluders(pre, lastOp.file) = {}) =>
        LET S == CHOOSE f \in Includers(lastOp.file) : TRUE IN
        /\ ParsedOk(S) =>
              /\ S \in DOMAIN translationUnits
              /\ result = TranslationUnit(S, translationUnits[S].tu)
        /\ \A f \in Known \ {S} :
              ParsedOk(f) => f \notin DOMAIN translationUnits

\* C3: getTranslationUnit on a header that no listed source and no cached
\* unit includes returns the empty unit after calling getTranslationUnit
\* exactly once for each listed source, and leaves no unit of a listed
\* source that does not include the header.
C3_NoIncluderNoLeftover ==
    (/\ GotHeader
     /\ Includers(lastOp.file) = {}
     /\ CachedIncluders(pre, lastOp.file) = {}) =>
        /\ empty(result)
        /\ \A f \in Known :
              Cardinality({i \in 1..Len(trace) :
                              trace[i].op = "get" /\ trace[i].file = f}) = 1
        /\ \A f \in Known : f \notin DOMAIN translationUnits

\* C4: a non-empty unit returned by getTranslationUnit is a cached unit that
\* is not stale: its stored arguments are the compilation database's current
\* arguments and its stored write time is the file's current write time.
C4_ReturnedUnitFresh ==
    (lastOp.name = "get" /\ ~empty(result)) =>
        /\ result.file \in DOMAIN translationUnits
        /\ translationUnits[result.file].tu = result.tu
        /\ translationUnits[result.file].compileArgs = dbArgs[result.file]
        /\ translationUnits[result.file].lastWriteTime
              = fsWriteTime[result.file]

\* The last getTranslationUnit found a unit with the current arguments and
\* another write time.
C5_Case ==
    /\ GotSource
    /\ lastOp.file \in DOMAIN pre
    /\ pre[lastOp.file].compileArgs = dbArgs[lastOp.file]
    /\ pre[lastOp.file].lastWriteTime # fsWriteTime[lastOp.file]

\* C5: for a cached source whose arguments are unchanged and whose write
\* time differs, getTranslationUnit makes exactly one reparse call; when it
\* succeeds there is no parse or dispose call, the unit keeps its handle and
\* arguments and its stored write time becomes the current one.
C5_ReparseInPlace ==
    C5_Case =>
        LET f   == lastOp.file
            old == pre[f]
        IN  /\ NumCalls(trace, "reparse") = 1
            /\ EngineCalls(trace)[1].op = "reparse"
            /\ EngineCalls(trace)[1].tu = old.tu
            /\ EngineCalls(trace)[1].ok =>
                  /\ Len(EngineCalls(trace)) = 1
                  /\ f \in DOMAIN translationUnits
                  /\ translationUnits[f] =
                        StoredTranslationUnit(old.compileArgs,
                                              fsWriteTime[f], old.tu)
                  /\ result = TranslationUnit(f, old.tu)

C5_Witness ==
    /\ C5_Case
    /\ EngineCalls(trace) = <<Event("reparse", lastOp.file,
                                    pre[lastOp.file].tu, TRUE)>>

\* The last getTranslationUnit found a unit with other arguments.
C6_Case ==
    /\ GotSource
    /\ lastOp.file \in DOMAIN pre
    /\ pre[lastOp.file].compileArgs # dbArgs[lastOp.file]

\* C6: for a cached source whose arguments changed, getTranslationUnit never
\* reparses, whatever the write time: it disposes the old unit, removes the
\* entry and parses once; on success the entry holds another handle, the
\* argument list of this parse and the current write time.
C6_RebuildOnNewArgs ==
    C6_Case =>
        LET f     == lastOp.file
            old   == pre[f]
            calls == EngineCalls(trace)
        IN  /\ NumCalls(trace, "reparse") = 0
            /\ Len(calls) = 2
            /\ calls[1] = Event("dispose", NoFile, old.tu, TRUE)
            /\ calls[2].op = "parse" /\ calls[2].file = f
            /\ IF calls[2].ok
               THEN /\ f \in DOMAIN translationUnits
                    /\ translationUnits[f].tu # old.tu
                    /\ translationUnits[f] =
                          StoredTranslationUnit(ArgsPassed(f), fsWriteTime[f],
                                                calls[2].tu)
                    /\ result = TranslationUnit(f, calls[2].tu)
               ELSE f \notin DOMAIN translationUnits

C6_Witness ==
    /\ C6_Case
    /\ verbose < 2
    /\ pre[lastOp.file].lastWriteTime # fsWriteTime[lastOp.file]
    /\ ParsedOk(lastOp.file)

\* The unit of file f in map is stale.
Stale(map, f) ==
    \/ map[f].compileArgs # dbArgs[f]
    \/ map[f].lastWriteTime # fsWriteTime[f]

\* C7: primeTranslationUnit on a file that has a unit makes no call and
\* leaves the map as it was, also when the unit is stale.
C7_PrimeCachedNoOp ==
    (lastOp.name = "prime" /\ lastOp.file \in DOMAIN pre) =>
        /\ trace = <<>>
        /\ translationUnits = pre

C7_Witness ==
    /\ lastOp.name = "prime"
    /\ lastOp.file \in DOMAIN pre
    /\ Stale(pre, lastOp.file)
    /\ verbose < 2

\* The last operation left every unit it found as it was.
UnitsUntouched ==
    \A f \in DOMAIN pre :
        /\ f \in DOMAIN translationUnits
        /\ translationUnits[f] = pre[f]
        /\ ~Touched(pre[f].tu)

\* C8 as claimed: primeTranslationUnit, on any path, headers included, never
\* reparses, disposes or rebuilds a unit that existed before the call.
C8_PrimeNeverTouches == lastOp.name = "prime" => UnitsUntouched

\* C8 as amended: it never does so on a source file, nor on a header that a
\* cached unit includes (only the forced search of a header no cached unit
\* includes reparses or rebuilds the stale units it meets).
C8_PrimeTouchesOnlyInSearch ==
    (/\ lastOp.name = "prime"
     /\ \/ isTranslationUnit(lastOp.file)
        \/ CachedIncluders(pre, lastOp.file) # {}) => UnitsUntouched

C8_Witness ==
    /\ lastOp.name = "prime"
    /\ \/ /\ isTranslationUnit(lastOp.file)
          /\ ParsedOk(lastOp.file)
       \/ CachedIncluders(pre, lastOp.file) # {}
    /\ \E f \in DOMAIN pre : Stale(pre, f)

\* C9: reprimeTranslationUnit on a file that has no unit makes no call and
\* adds no unit; in every case the files that have a unit after it are among
\* those that had one before.
C9_ReprimeAddsNothing ==
    lastOp.name = "reprime" =>
        /\ DOMAIN translationUnits \subseteq DOMAIN pre
        /\ lastOp.file \notin DOMAIN pre =>
              /\ trace = <<>>
              /\ translationUnits = pre

C9_Witness ==
    /\ lastOp.name = "reprime"
    /\ isTranslationUnit(lastOp.file)
    /\ lastOp.file \notin DOMAIN pre
    /\ pre # EmptyMap

\* C10: after removeAllTranslationUnits the map is empty and every unit it
\* held was disposed exactly once; getTranslationUnit on a source that had a
\* unit then acts as on a first request: one parse, no reparse, no dispose.
C10_RemoveAllThenFirstRequest ==
    lastOp.name = "removeAll" =>
        /\ translationUnits = EmptyMap
        /\ \A f \in DOMAIN pre :
              /\ Cardinality({i \in 1..Len(trace) :
                    trace[i] = Event("dispose", NoFile, pre[f].tu, TRUE)}) = 1
              /\ disposed[pre[f].tu] = 1
        /\ \A f \in DOMAIN pre, po \in Outcomes, ro \in Outcomes :
              LET r == getTranslationUnit(Machine, f, po, ro)
              IN  /\ Len(EngineCalls(r.st.trace)) = 1
                  /\ EngineCalls(r.st.trace)[1].op = "parse"
                  /\ EngineCalls(r.st.trace)[1].file = f

C10_Witness ==
    /\ lastOp.name = "removeAll"
    /\ Cardinality(DOMAIN pre) = 2

\* The place in the last operation's trace of its last parse of f; 0 when
\* it parsed f not at all.
LastParse(f) ==
    LET at == {i \in 1..Len(trace) : trace[i].op = "parse" /\ trace[i].file = f}
    IN  IF at = {} THEN 0 ELSE CHOOSE i \in at : \A j \in at : j <= i

\* The last operation's last parse of f failed.
ParseFailed(f) == LastParse(f) # 0 /\ ~trace[LastParse(f)].ok

\* C11: in every state each key of the map is a translation unit's path
\* (.c, .cc, .cpp, .m, .mm), each entry holds a non-null unit that no other
\* entry holds, and that unit is the one the last parse of the path
\* answered with: the parse succeeded in the last operation, or the entry
\* stands as it stood before an operation that did not parse the path.
C11_EntriesAreParsedSources ==
    \A f \in DOMAIN translationUnits :
        /\ isTranslationUnit(f)
        /\ translationUnits[f].tu # NullTU
        /\ \A g \in DOMAIN translationUnits \ {f} :
              translationUnits[g].tu # translationUnits[f].tu
        /\ IF LastParse(f) = 0
           THEN f \in DOMAIN pre /\ pre[f].tu = translationUnits[f].tu
           ELSE /\ trace[LastParse(f)].ok
                /\ trace[LastParse(f)].tu = translationUnits[f].tu

\* A failed parse took the entry of its path away, and another entry stays.
C11_Witness ==
    /\ GotSource
    /\ lastOp.file \in DOMAIN pre
    /\ ParseFailed(lastOp.file)
    /\ translationUnits # EmptyMap

\* The last getTranslationUnit on a source file met a failing reparse.
C12_Case ==
    /\ GotSource
    /\ \E i \in 1..Len(trace) : trace[i].op = "reparse" /\ ~trace[i].ok

\* C12: when the reparse fails, getTranslationUnit goes on: its calls to
\* libclang are the failed reparse of the stored unit, one dispose of that
\* unit and one parse of the file, in this order; when the parse succeeds
\* the path has an entry with the new handle and the current write time,
\* and that unit is returned.
C12_ReparseFailureFallsBack ==
    C12_Case =>
        LET f     == lastOp.file
            calls == EngineCalls(trace)
        IN  /\ f \in DOMAIN pre
            /\ Len(calls) = 3
            /\ calls[1] = Event("reparse", f, pre[f].tu, FALSE)
            /\ calls[2] = Event("dispose", NoFile, pre[f].tu, TRUE)
            /\ disposed[pre[f].tu] = 1
            /\ calls[3].op = "parse" /\ calls[3].file = f
            /\ calls[3].ok =>
                  /\ f \in DOMAIN translationUnits
                  /\ translationUnits[f].tu = calls[3].tu
                  /\ translationUnits[f].tu # pre[f].tu
                  /\ translationUnits[f].lastWriteTime = fsWriteTime[f]
                  /\ result = TranslationUnit(f, calls[3].tu)

C12_Witness ==
    /\ C12_Case
    /\ Len(EngineCalls(trace)) = 3
    /\ EngineCalls(trace)[3].ok
    /\ lastOp.file \in DOMAIN translationUnits

\* The last getTranslationUnit on a source file met a failing parse.
C13_Case == GotSource /\ ParseFailed(lastOp.file)

\* C13: when the parse fails, getTranslationUnit returns the empty unit and
\* the map holds no entry for the path; an entry the path had before was
\* removed and its unit disposed once, before the parse.
C13_ParseFailureLeavesNoEntry ==
    C13_Case =>
        LET f == lastOp.file IN
        /\ empty(result)
        /\ f \notin DOMAIN translationUnits
        /\ f \in DOMAIN pre =>
              /\ disposed[pre[f].tu] = 1
              /\ \E i \in 1..LastParse(f) :
                    trace[i] = Event("dispose", NoFile, pre[f].tu, TRUE)

C13_Witness ==
    /\ C13_Case
    /\ lastOp.file \in DOMAIN pre
    /\ empty(result)
    /\ NumCalls(trace, "dispose") = 1

\* The place of the "list" event (the call of translationUnits()) in the
\* last operation's trace; 0 when the list was not asked for.
ListAt ==
    LET at == {i \in 1..Len(trace) : trace[i].op = "list"}
    IN  IF at = {} THEN 0 ELSE CHOOSE i \in at : \A j \in at : i <= j

IsForcedGet(e) == e.op = "get" /\ isTranslationUnit(e.file)

\* The getTranslationUnit calls the header search made on source files.
ForcedGets == SelectSeq(trace, IsForcedGet)

\* The forced search passed over source f: its parse failed, or its unit
\* was tested and does not include the header.
PassedOver(f) ==
    \/ ParseFailed(f)
    \/ \E i \in (ListAt + 1)..Len(trace) :
          trace[i].op = "includes" /\ trace[i].file = f /\ ~trace[i].ok

\* The scan of the last getTranslationUnit on a header found no unit, and
\* at least two listed sources include the header.
C14_Case ==
    /\ GotHeader
    /\ ListAt # 0
    /\ Cardinality(Includers(lastOp.file)) >= 2

\* C14: then the forced calls go through the list in its order; a non-empty
\* result is the unit of the last source requested, that unit was tested to
\* include the header, and every source listed before it was passed over:
\* no source listed after the returned one is requested. An empty result
\* means every listed source was requested and passed over.
C14_FirstIncluderInListOrder ==
    C14_Case =>
        LET n == Len(ForcedGets) IN
        /\ n <= Len(dbUnits)
        /\ \A j \in 1..n : ForcedGets[j].file = dbUnits[j]
        /\ \A j \in 1..(n - 1) : PassedOver(dbUnits[j])
        /\ IF empty(result)
           THEN n = Len(dbUnits) /\ PassedOver(dbUnits[n])
           ELSE /\ n >= 1
                /\ result.file = dbUnits[n]
                /\ result.file \in DOMAIN translationUnits
                /\ result.tu = translationUnits[result.file].tu
                /\ trace[Len(trace)] =
                      Event("includes", result.file, result.tu, TRUE)

\* The first listed includer failed to parse and the second was returned.
C14_Witness ==
    /\ C14_Case
    /\ ParseFailed(dbUnits[1])
    /\ result.file = dbUnits[2]

\* A getTranslationUnit on a header answered with a unit that the map still
\* holds: the entry it came from stayed since.
C15_Case ==
    /\ Ready
    /\ resolved # NullTU
    /\ \E f \in DOMAIN translationUnits : translationUnits[f].tu = resolved

\* A getTranslationUnit on header h, called now, answers from the map: no
\* parse, reparse or dispose, no call of translationUnits(), and the result
\* is the unit of an entry, which includes h.
AnswersFromMap(h) ==
    \A po \in Outcomes, ro \in Outcomes :
        LET r == getTranslationUnit(Machine, h, po, ro) IN
        /\ EngineCalls(r.st.trace) = <<>>
        /\ NumCalls(r.st.trace, "list") = 0
        /\ ~empty(r.ret)
        /\ r.ret.file \in DOMAIN translationUnits
        /\ r.ret.tu = translationUnits[r.ret.file].tu
        /\ r.st.translationUnits = translationUnits
        /\ h \in tuIncludes[r.ret.tu]

\* C15 as stated: once getTranslationUnit on the header returned the unit of
\* a source, every later getTranslationUnit on the header, while that entry
\* stays in the map, answers from the map.
C15_LaterLookupsAnswerFromMap ==
    C15_Case => \A h \in Headers : AnswersFromMap(h)

\* C15 amended: ... while that entry stays in the map and its unit still
\* includes the header (a reparse of the edited source can drop the
\* #include from the unit that stays in the entry).
C15_LaterLookupsWhileIncluded ==
    (C15_Case /\ \A h \in Headers : h \in tuIncludes[resolved]) =>
        \A h \in Headers : AnswersFromMap(h)

\* The header was resolved, and a later request for another source has
\* changed the map since.
C15_Witness ==
    /\ C15_Case
    /\ \A h \in Headers : h \in tuIncludes[resolved]
    /\ GotSource
    /\ ParsedOk(lastOp.file)
    /\ translationUnits[lastOp.file].tu # resolved

\* The places of the dispose calls in the last operation's trace.
DisposedAt(tu) ==
    {i \in 1..Len(trace) : trace[i] = Event("dispose", NoFile, tu, TRUE)}

\* C16: after the destructor the map is empty and nothing is called any
\* more. If initialize had created an index, every unit the map held was
\* disposed once, and the single disposeIndex call is the last call of
\* all, after every dispose; if not, no index is disposed.
C16_DestructorOrder ==
    lastOp.name = "destroy" =>
        /\ destroyed
        /\ translationUnits = EmptyMap
        /\ ~ENABLED Next
        /\ \A f \in DOMAIN pre :
              /\ Cardinality(DisposedAt(pre[f].tu)) = 1
              /\ disposed[pre[f].tu] = 1
        /\ \A h \in DOMAIN disposed : disposed[h] = 1
        /\ IF index = "disposed"
           THEN /\ NumCalls(trace, "disposeIndex") = 1
                /\ trace[Len(trace)].op = "disposeIndex"
                /\ Len(trace) = Cardinality(DOMAIN pre) + 1
           ELSE /\ index = "null"
                /\ NumCalls(trace, "disposeIndex") = 0

\* An initialized manager holding two units was destroyed.
C16_Witness ==
    /\ lastOp.name = "destroy"
    /\ index = "disposed"
    /\ Cardinality(DOMAIN pre) = 2

\* The units the map held when the last operation began.
PreUnits == {pre[f].tu : f \in DOMAIN pre}

\* Unit tu is alive at place i of the last operation's trace: it was held
\* when the operation began or parsed before i, and not disposed before i.
LiveAt(tu, i) ==
    /\ \/ tu \in PreUnits
       \/ \E j \in 1..(i - 1) : trace[j].op = "parse" /\ trace[j].tu = tu
    /\ \A j \in 1..(i - 1) : ~(trace[j].op = "dispose" /\ trace[j].tu = tu)

\* C17: no unit is disposed more than once; every unit handed to reparse,
\* to includesFile or to dispose is alive at that call; the units the map
\* holds and the unit an operation returns are not disposed.
C17_NoUseAfterDispose ==
    /\ \A h \in DOMAIN disposed : disposed[h] <= 1
    /\ \A i \in 1..Len(trace) :
          trace[i].op \in {"reparse", "includes", "dispose"} =>
              LiveAt(trace[i].tu, i)
    /\ \A f \in DOMAIN translationUnits :
          /\ translationUnits[f].tu \in DOMAIN disposed
          /\ disposed[translationUnits[f].tu] = 0
    /\ ~empty(result) =>
          /\ result.tu \in DOMAIN disposed
          /\ disposed[result.tu] = 0

\* A header lookup tested a unit it holds and replaced another: a dispose,
\* an inclusion test and a returned unit in one operation.
C17_Witness ==
    /\ GotHeader
    /\ ~empty(result)
    /\ NumCalls(trace, "dispose") >= 1
    /\ NumCalls(trace, "includes") >= 2
    /\ \E h \in DOMAIN disposed : disposed[h] = 1

\* The entries that hold unit h.
Holders(h) == {f \in DOMAIN translationUnits : translationUnits[f].tu = h}

\* C18: between operations every unit ever parsed is held by exactly one
\* entry or was disposed, never both; and an entry that an operation removed
\* or replaced had its unit disposed before any later parse of its path.
C18_NoLeak ==
    /\ DOMAIN disposed = 1..(nextTu - 1)
    /\ \A h \in DOMAIN disposed :
          IF disposed[h] = 0
          THEN Cardinality(Holders(h)) = 1
          ELSE Holders(h) = {}
    /\ \A f \in DOMAIN pre :
          (f \notin DOMAIN translationUnits
             \/ translationUnits[f].tu # pre[f].tu) =>
              /\ disposed[pre[f].tu] >= 1
              /\ DisposedAt(pre[f].tu) # {}
              /\ \A i \in DisposedAt(pre[f].tu), j \in 1..Len(trace) :
                    (trace[j].op = "parse" /\ trace[j].file = f) => i < j

\* An operation replaced the unit of an entry: the old unit is disposed,
\* the new one held.
C18_Witness ==
    \E f \in DOMAIN pre \cap DOMAIN translationUnits :
        /\ translationUnits[f].tu # pre[f].tu
        /\ disposed[pre[f].tu] = 1
        /\ disposed[translationUnits[f].tu] = 0

\* The last operation's trace holds no call on unit tu and no request,
\* parse or reparse of file f.
NoCallOn(f, tu) ==
    \A i \in 1..Len(trace) : trace[i].tu # tu /\ trace[i].file # f

\* C19: getTranslationUnit on a source file leaves every entry of another
\* path as it was, with its unit and that unit's contents, adds no entry
\* for another path, and makes no call on another entry's unit.
C19_OtherEntriesUntouched ==
    GotSource =>
        \A f \in (DOMAIN pre \cup DOMAIN translationUnits) \ {lastOp.file} :
            /\ f \in DOMAIN pre
            /\ f \in DOMAIN translationUnits
            /\ translationUnits[f] = pre[f]
            /\ disposed[pre[f].tu] = 0
            /\ tuIncludes[pre[f].tu] = preIncludes[f]
            /\ NoCallOn(f, pre[f].tu)

\* The requested source was reparsed while the other source had an entry.
C19_Witness ==
    /\ GotSource
    /\ Cardinality(DOMAIN pre) = 2
    /\ NumCalls(trace, "reparse") = 1

\* C20: getTranslationUnit on a header always returns, also when
\* translationUnits() lists a header: no call ends in a search nested in a
\* search of the same frame, which would recurse without end.
C20_HeaderLookupTerminates == lastOp.name # "overflow"

====
